---- MODULE Spec2Model ----
(***************************************************************************)
(* Model of the polling / rate-limit coordination layer of the financial   *)
(* dashboard: the generic poller (hooks/usePollingData.ts), the Alpha      *)
(* Vantage service (services/alphaVantage.ts), the quote freshness check   *)
(* of hooks/useStockData.ts, the index adapter                             *)
(* (hooks/useMarketIndices.ts) with its enabled option, the portfolio      *)
(* cycles (hooks/usePortfolioData.ts) and what the service makes of the    *)
(* quote and time-series payloads.                                         *)
(*                                                                         *)
(* JavaScript runs the code on one event loop: a handler runs without      *)
(* interruption up to its next await, so every action below is one such    *)
(* run-to-await segment.  A React state write and the re-render it causes  *)
(* are taken as one step.  Time is counted in abstract units.              *)
(***************************************************************************)
EXTENDS Integers, Sequences, FiniteSets, TLC

VARIABLES
  \* ---- usePollingData ------------------------------------------------
  p_phase,          \* life of the hook instance: "new", "mounted", "gone"
  p_enabled,        \* prop enabled of the latest render
  p_intervalMs,     \* prop intervalMs of the latest render
  p_immediate,      \* prop immediate of the latest render
  p_fetcher,        \* identity of the fetcher of the latest render
  isFetching,       \* isFetching.current
  hasFetchedOnce,   \* hasFetchedOnce.current
  intervalId,       \* intervalId.current (NoTimer = null)
  p_timers,         \* the intervals armed in the event loop, with their closures
  p_nextTimer,      \* next id setInterval hands out
  p_data, p_loading, p_error,   \* the useState triple
  p_inflight,       \* fetcher invocations started and not yet settled
  p_started,        \* fetcher invocations started so far
  p_calls,          \* fetchData calls so far (ticks, refetch, initial)
  p_dropped,        \* fetchData calls that returned at the guard while one was pending
  p_atStart,        \* data when the pending fetcher invocation started
  p_last,           \* the latest settled invocation: outcome, what it found, its promise
  p_actCalls,       \* fetchData calls of the initial-fetch effect since the latest activation
  \* ---- services/alphaVantage.ts ---------------------------------------
  av_now,           \* Date.now()
  inflightPromise,  \* the module-level slot: NoCall (null) or the call that filled it
  nextAvailableTime,\* the module-level cooldown timestamp
  calls,            \* the getQuote(symbol) / getTimeSeries(symbol) calls awaiting their result
  rateLimitedAt,    \* when a getQuote request was last answered with the rate-limit text
  delivered,        \* what the callers served in the step just taken received
  b_pc,             \* position of the getBatchQuotes run
  b_syms,           \* its argument symbols
  b_i,              \* index of the symbol being fetched
  b_retries,        \* retries left for that symbol
  lastRequestTime,  \* lastRequestTime of the run
  b_wakeAt,         \* when the timer the run awaits is due
  b_req,            \* the run's current getQuote(symbol, true) request
  b_prev,           \* the request before it in the same run
  b_results,        \* results of the run, as <<symbol, result>> pairs in order
  \* ---- hooks/useStockData.ts ------------------------------------------
  s_now,            \* Date.now()
  s_phase,          \* "new" before the first render, "mounted" after
  stockQuotes,      \* stockQuotes[symbol]: NoQuote or the cached quote
  isQuoteFresh,     \* isQuoteFresh of the latest render
  s_inflight,       \* getQuote calls of the hook awaiting their result
  s_getQuoteCalls,  \* getQuote calls the hook has made
  s_last,           \* the latest fetchQuote() call: the cache at that instant, what it did
  chartData,        \* the chartData state of the hook
  s_seriesPending,  \* getTimeSeries calls of the hook awaiting their result
  s_seriesCalls,    \* getTimeSeries calls the hook has made
  s_lastSeries,     \* the latest settled getTimeSeries call: outcome, chartData before it
  s_error,          \* localError and error[key], which fetchQuote writes together
  s_closures,       \* per pending getQuote call, whether its fetchQuote closure held a cachedQuote
  s_null,           \* the latest getQuote call that resolved to null: the error and cache it left
  \* ---- hooks/useMarketIndices.ts ---------------------------------------
  i_now,            \* Date.now()
  rateLimitedUntil, \* module-level rateLimitedUntil: symbol -> time; 0 = no entry
  marketIndices,    \* the marketIndicesState atom, as rendered
  x_pc,             \* "idle", or "await" while a cycle awaits axios.get
  x_i,              \* position of the awaited symbol in INDEX_SYMBOLS
  x_now,            \* const now of the cycle
  x_snap,           \* marketIndices captured by the cycle's fetchIndices closure
  updated,          \* const updated of the cycle
  x_before,         \* the atom's value when the cycle started
  x_outcome,        \* what the current or last cycle did with each symbol
  x_limitedAt,      \* symbol -> time of its latest 429 answer; None = never
  x_returned,       \* the value the last finished cycle returned
  \* ---- hooks/usePortfolioData.ts ---------------------------------------
  f_pc,             \* "idle", or "await" while fetchPortfolio awaits getBatchQuotes
  f_data,           \* the holdings published: the value fetchPortfolio returned last
  f_quotes,         \* the getBatchQuotes entries of the last finished cycle
  f_lastOk,         \* per symbol, the holding published by its last cycle with a quote
  \* ---- services/alphaVantage.ts: the payload of one getTimeSeries call --
  ts_pc,            \* "idle", "await" while the call awaits api.get, "done" after it returned
  ts_interval,      \* the interval argument of the call
  ts_sent,          \* the rows the provider holds, as numbers, in the order it sends them
  ts_raw,           \* response.data of the call
  ts_result,        \* the value the call resolved to
  \* ---- services/alphaVantage.ts: the payload of one getQuote call -------
  q_pc,             \* "idle", "await" while the call awaits api.get, "done" after it returned
  q_symbol,         \* the symbol argument of the call
  q_raw,            \* response.data of the call
  q_result,         \* the value the call resolved to
  q_hasQuote,       \* hasQuote of fetchPortfolio for that value
  \* ---- hooks/useMarketIndices.ts: the enabled option --------------------
  m_phase,          \* "new" before the first render, "mounted", "gone"
  m_enabled,        \* options.enabled of the latest render
  m_timer,          \* the armed interval: NoInterval, or the enabled its fetchIndices captured
  m_hasFetchedOnce, \* hasFetchedOnce.current of the poller
  m_isFetching,     \* isFetching.current of the poller
  m_inv,            \* the pending fetchIndices invocation, NoInvocation when none
  m_poll,           \* data, loading, error of the poller
  m_atom,           \* the marketIndicesState atom
  m_calls,          \* mounts, ticks and refetch calls so far
  m_requests,       \* axios.get calls made so far
  m_lastReq,        \* the latest axios.get call: what triggered its invocation
  m_everEnabled,    \* some render so far had enabled = true
  m_idle            \* triggers (tick, refetch) handled while enabled = false

pvars == <<p_phase, p_enabled, p_intervalMs, p_immediate, p_fetcher,
           isFetching, hasFetchedOnce, intervalId, p_timers, p_nextTimer,
           p_data, p_loading, p_error, p_inflight, p_started, p_calls, p_dropped,
          p_atStart, p_last, p_actCalls>>

avvars == <<av_now, inflightPromise, nextAvailableTime, rateLimitedAt, calls, delivered, b_pc, b_syms, b_i,
            b_retries, lastRequestTime, b_wakeAt, b_req, b_prev, b_results>>

seriesvars == <<chartData, s_seriesPending, s_seriesCalls, s_lastSeries>>
errvars == <<s_error, s_closures, s_null>>
stvars == <<s_now, s_phase, stockQuotes, isQuoteFresh, s_inflight, s_getQuoteCalls, s_last,
            seriesvars, errvars>>

ixvars == <<i_now, rateLimitedUntil, marketIndices, x_pc, x_i, x_now, x_snap, updated,
            x_before, x_outcome, x_limitedAt, x_returned>>

pfvars == <<f_pc, f_data, f_quotes, f_lastOk>>

tsvars == <<ts_pc, ts_interval, ts_sent, ts_raw, ts_result>>

\* The variables added for the payload specifications.
qvars == <<q_pc, q_symbol, q_raw, q_result, q_hasQuote>>

mvars == <<m_phase, m_enabled, m_timer, m_hasFetchedOnce, m_isFetching, m_inv, m_poll, m_atom,
           m_calls, m_requests, m_lastReq, m_everEnabled, m_idle>>

morevars == <<tsvars, qvars, mvars>>

vars == <<pvars, avvars, stvars, ixvars, pfvars, morevars>>

nonPoller == <<avvars, stvars, ixvars, pfvars, morevars>>
nonService == <<pvars, stvars, ixvars, pfvars, morevars>>
nonStock == <<pvars, avvars, ixvars, pfvars, morevars>>
nonIndices == <<pvars, avvars, stvars, pfvars, morevars>>
nonPortfolio == <<pvars, avvars, stvars, ixvars, morevars>>
nonSeries == <<pvars, avvars, stvars, ixvars, pfvars, qvars, mvars>>
nonQuote == <<pvars, avvars, stvars, ixvars, pfvars, tsvars, mvars>>
nonHook == <<pvars, avvars, stvars, ixvars, pfvars, tsvars, qvars>>

(***************************************************************************)
(* Bounds                                                                  *)
(***************************************************************************)
MaxCalls == 4        \* fetchData calls explored per behaviour
MaxTimerIds == 3     \* setInterval calls explored per behaviour
MaxTime == 3         \* clock ticks explored after the start time
MaxLocked == 2       \* getQuote / getTimeSeries calls awaiting their result at one time
MaxStockTime == 4    \* clock ticks explored for the quote cache
MaxQuoteCalls == 3   \* getQuote calls of useStockData explored per behaviour
MaxSeriesCalls == 2  \* getTimeSeries calls of useStockData explored per behaviour
MaxIdxTime == 3      \* clock ticks explored for the index cycles
MaxRows == 2         \* dated rows of a time-series payload
MaxDate == 3         \* distinct dates a payload draws its rows from
MaxBatchTime == 30   \* clock ticks explored for one getBatchQuotes run
MaxHookCalls == 3    \* mounts, ticks and refetch calls of useMarketIndices explored per behaviour

NoTimer == 0
InitialValue == "initial"
Results == {"r1", "r2"}
Failures == {"err"}
Null == "null"
Fetchers == {0, 1}
Intervals == {-1, 0, 1}
NoSettle == [kind |-> "none", detail |-> Null, dataBefore |-> InitialValue,
             errorBefore |-> Null, promise |-> "none", phase |-> "new"]

(***************************************************************************)
(* usePollingData                                                          *)
(***************************************************************************)

\* fetchData with the in-flight check dropped from the guard.
fetchDataNoGuard(en) ==
  /\ p_calls' = p_calls + 1
  /\ IF ~en
       THEN UNCHANGED <<isFetching, p_inflight, p_started, p_dropped, p_atStart>>
       ELSE /\ isFetching' = TRUE
            /\ p_atStart' = p_data
            /\ p_inflight' = p_inflight + 1
            /\ p_started' = p_started + 1
            /\ UNCHANGED p_dropped

\* fetchData that sets the flag to false instead of true before the await.
fetchDataFlagNotSet(en) ==
  /\ p_calls' = p_calls + 1
  /\ IF ~en \/ isFetching
       THEN /\ p_dropped' = IF en THEN p_dropped + 1 ELSE p_dropped
            /\ UNCHANGED <<isFetching, p_inflight, p_started, p_atStart>>
       ELSE /\ isFetching' = FALSE
            /\ p_atStart' = p_data
            /\ p_inflight' = p_inflight + 1
            /\ p_started' = p_started + 1
            /\ UNCHANGED p_dropped

\* fetchData up to its await: the guard, the flag, the call of fetcher().
\* en is the value of enabled the closure captured.
fetchData(en) ==
  /\ p_calls' = p_calls + 1
  /\ IF ~en \/ isFetching
       THEN /\ p_dropped' = IF en THEN p_dropped + 1 ELSE p_dropped
            /\ UNCHANGED <<isFetching, p_inflight, p_started, p_atStart>>
       ELSE /\ isFetching' = TRUE
            /\ p_atStart' = p_data
            /\ p_inflight' = p_inflight + 1
            /\ p_started' = p_started + 1
            /\ UNCHANGED p_dropped

\* ArmInterval without the early return of the effect.
ArmIntervalAlways(en, iv, f) ==
  /\ p_nextTimer <= MaxTimerIds
  /\ p_timers' = p_timers \cup {[id |-> p_nextTimer, enabled |-> en, fetcher |-> f]}
  /\ intervalId' = p_nextTimer
  /\ p_nextTimer' = p_nextTimer + 1

\* The body of the polling effect: arm an interval running this render's fetchData.
ArmInterval(en, iv, f) ==
  IF en /\ iv > 0
    THEN /\ p_nextTimer <= MaxTimerIds
         /\ p_timers' = p_timers \cup {[id |-> p_nextTimer, enabled |-> en, fetcher |-> f]}
         /\ intervalId' = p_nextTimer
         /\ p_nextTimer' = p_nextTimer + 1
    ELSE UNCHANGED <<p_timers, intervalId, p_nextTimer>>

\* RearmInterval without the cleanup of the previous run.
RearmIntervalNoCleanup(armed, en, iv, f) ==
  IF en /\ iv > 0
    THEN /\ p_nextTimer <= MaxTimerIds
         /\ p_timers' = p_timers \cup {[id |-> p_nextTimer, enabled |-> en, fetcher |-> f]}
         /\ intervalId' = p_nextTimer
         /\ p_nextTimer' = p_nextTimer + 1
    ELSE UNCHANGED <<p_timers, intervalId, p_nextTimer>>

\* The cleanup the polling effect returned, followed by the effect's next run.
\* armed: the previous run of the effect got past its early return.
RearmInterval(armed, en, iv, f) ==
  LET cleared == IF armed /\ intervalId # NoTimer
                   THEN {t \in p_timers : t.id # intervalId} ELSE p_timers
      ref == IF armed /\ intervalId # NoTimer THEN NoTimer ELSE intervalId
  IN IF en /\ iv > 0
       THEN /\ p_nextTimer <= MaxTimerIds
            /\ p_timers' = cleared \cup {[id |-> p_nextTimer, enabled |-> en, fetcher |-> f]}
            /\ intervalId' = p_nextTimer
            /\ p_nextTimer' = p_nextTimer + 1
       ELSE /\ p_timers' = cleared
            /\ intervalId' = ref
            /\ UNCHANGED p_nextTimer

\* First render and its two effects.
Mount(en, iv, imm) ==
  /\ UNCHANGED nonPoller
  /\ p_phase = "new"
  /\ p_calls < MaxCalls
  /\ p_phase' = "mounted"
  /\ p_enabled' = en /\ p_intervalMs' = iv /\ p_immediate' = imm
  /\ p_loading' = (imm /\ en)
  /\ UNCHANGED <<p_fetcher, p_data, p_error, p_last>>
  /\ IF en /\ imm /\ ~hasFetchedOnce
       THEN hasFetchedOnce' = TRUE /\ fetchData(en) /\ p_actCalls' = 1
       ELSE UNCHANGED <<hasFetchedOnce, isFetching, p_inflight, p_started, p_calls, p_dropped,
                        p_atStart, p_actCalls>>
  /\ ArmInterval(en, iv, p_fetcher)

\* A later render with new props or a new fetcher, and the effects whose
\* dependencies changed.
Rerender(en, iv, f) ==
  /\ UNCHANGED nonPoller
  /\ p_phase = "mounted"
  /\ <<en, iv, f>> # <<p_enabled, p_intervalMs, p_fetcher>>
  /\ p_calls < MaxCalls
  /\ p_enabled' = en /\ p_intervalMs' = iv /\ p_fetcher' = f
  /\ UNCHANGED <<p_phase, p_immediate, p_data, p_loading, p_error, p_last>>
  /\ IF (en # p_enabled \/ f # p_fetcher) /\ en /\ p_immediate /\ ~hasFetchedOnce
       THEN /\ hasFetchedOnce' = TRUE /\ fetchData(en)
            /\ p_actCalls' = IF ~p_enabled THEN 1 ELSE p_actCalls + 1
       ELSE /\ UNCHANGED <<hasFetchedOnce, isFetching, p_inflight, p_started, p_calls,
                           p_dropped, p_atStart>>
            /\ p_actCalls' = IF en /\ ~p_enabled THEN 0 ELSE p_actCalls
  /\ RearmInterval(p_enabled /\ p_intervalMs > 0, en, iv, f)

\* An armed interval fires and runs the fetchData it was armed with.
Tick(t) ==
  /\ UNCHANGED nonPoller
  /\ t \in p_timers
  /\ p_calls < MaxCalls
  /\ fetchData(t.enabled)
  /\ UNCHANGED <<p_phase, p_enabled, p_intervalMs, p_immediate, p_fetcher,
                 hasFetchedOnce, intervalId, p_timers, p_nextTimer,
                 p_data, p_loading, p_error, p_last, p_actCalls>>

\* The consumer calls refetch of the latest render.
Refetch ==
  /\ UNCHANGED nonPoller
  /\ p_phase = "mounted"
  /\ p_calls < MaxCalls
  /\ fetchData(p_enabled)
  /\ UNCHANGED <<p_phase, p_enabled, p_intervalMs, p_immediate, p_fetcher,
                 hasFetchedOnce, intervalId, p_timers, p_nextTimer,
                 p_data, p_loading, p_error, p_last, p_actCalls>>

\* SettleOk that leaves error as it was.
SettleOkKeepsError(r) ==
  /\ UNCHANGED nonPoller
  /\ p_inflight > 0
  /\ p_inflight' = p_inflight - 1
  /\ p_data' = r
  /\ p_loading' = FALSE
  /\ isFetching' = FALSE
  /\ p_last' = [kind |-> "ok", detail |-> r, dataBefore |-> p_atStart,
                errorBefore |-> p_error, promise |-> "resolved", phase |-> p_phase]
  /\ UNCHANGED <<p_phase, p_enabled, p_intervalMs, p_immediate, p_fetcher, p_error,
                 hasFetchedOnce, intervalId, p_timers, p_nextTimer, p_started, p_calls, p_dropped,
                 p_atStart, p_actCalls>>

\* SettleFail that resets data to the initial value.
SettleFailClearsData(e) ==
  /\ UNCHANGED nonPoller
  /\ p_inflight > 0
  /\ p_inflight' = p_inflight - 1
  /\ p_data' = InitialValue
  /\ p_error' = e
  /\ p_loading' = FALSE
  /\ isFetching' = FALSE
  /\ p_last' = [kind |-> "failed", detail |-> e, dataBefore |-> p_atStart,
                errorBefore |-> p_error, promise |-> "resolved", phase |-> p_phase]
  /\ UNCHANGED <<p_phase, p_enabled, p_intervalMs, p_immediate, p_fetcher,
                 hasFetchedOnce, intervalId, p_timers, p_nextTimer, p_started, p_calls, p_dropped,
                 p_atStart, p_actCalls>>

\* fetcher() resolves: the rest of the try block and the finally block.
SettleOk(r) ==
  /\ UNCHANGED nonPoller
  /\ p_inflight > 0
  /\ p_inflight' = p_inflight - 1
  /\ p_data' = r
  /\ p_error' = Null
  /\ p_loading' = FALSE
  /\ isFetching' = FALSE
  /\ p_last' = [kind |-> "ok", detail |-> r, dataBefore |-> p_atStart,
                errorBefore |-> p_error, promise |-> "resolved", phase |-> p_phase]
  /\ UNCHANGED <<p_phase, p_enabled, p_intervalMs, p_immediate, p_fetcher,
                 hasFetchedOnce, intervalId, p_timers, p_nextTimer, p_started, p_calls, p_dropped,
                 p_atStart, p_actCalls>>

\* fetcher() rejects: the catch block and the finally block.
SettleFail(e) ==
  /\ UNCHANGED nonPoller
  /\ p_inflight > 0
  /\ p_inflight' = p_inflight - 1
  /\ p_error' = e
  /\ p_loading' = FALSE
  /\ isFetching' = FALSE
  /\ p_last' = [kind |-> "failed", detail |-> e, dataBefore |-> p_atStart,
                errorBefore |-> p_error, promise |-> "resolved", phase |-> p_phase]
  /\ UNCHANGED <<p_phase, p_enabled, p_intervalMs, p_immediate, p_fetcher, p_data,
                 hasFetchedOnce, intervalId, p_timers, p_nextTimer, p_started, p_calls, p_dropped,
                 p_atStart, p_actCalls>>

\* Unmount whose cleanup leaves the interval armed.
UnmountNoClear ==
  /\ UNCHANGED nonPoller
  /\ p_phase = "mounted"
  /\ p_phase' = "gone"
  /\ UNCHANGED <<p_timers, intervalId>>
  /\ UNCHANGED <<p_enabled, p_intervalMs, p_immediate, p_fetcher, isFetching,
                 hasFetchedOnce, p_nextTimer, p_data, p_loading, p_error,
                 p_inflight, p_started, p_calls, p_dropped, p_atStart, p_last, p_actCalls>>

\* Unmount: the cleanup of the polling effect.
Unmount ==
  /\ UNCHANGED nonPoller
  /\ p_phase = "mounted"
  /\ p_phase' = "gone"
  /\ IF p_enabled /\ p_intervalMs > 0 /\ intervalId # NoTimer
       THEN /\ p_timers' = {t \in p_timers : t.id # intervalId}
            /\ intervalId' = NoTimer
       ELSE UNCHANGED <<p_timers, intervalId>>
  /\ UNCHANGED <<p_enabled, p_intervalMs, p_immediate, p_fetcher, isFetching,
                 hasFetchedOnce, p_nextTimer, p_data, p_loading, p_error,
                 p_inflight, p_started, p_calls, p_dropped, p_atStart, p_last, p_actCalls>>

PollerInit ==
  /\ p_phase = "new"
  /\ p_enabled = FALSE /\ p_intervalMs = 0 /\ p_immediate = FALSE
  /\ p_fetcher = 0
  /\ isFetching = FALSE /\ hasFetchedOnce = FALSE /\ intervalId = NoTimer
  /\ p_timers = {} /\ p_nextTimer = 1
  /\ p_data = InitialValue /\ p_loading = FALSE /\ p_error = Null
  /\ p_inflight = 0 /\ p_started = 0 /\ p_calls = 0 /\ p_dropped = 0
  /\ p_atStart = InitialValue /\ p_last = NoSettle /\ p_actCalls = 0

PollerNext ==
  \/ \E en \in BOOLEAN, iv \in Intervals, imm \in BOOLEAN : Mount(en, iv, imm)
  \/ \E en \in BOOLEAN, iv \in Intervals, f \in Fetchers : Rerender(en, iv, f)
  \/ \E t \in p_timers : Tick(t)
  \/ Refetch
  \/ \E r \in Results : SettleOk(r)
  \/ \E e \in Failures : SettleFail(e)
  \/ Unmount

(***************************************************************************)
(* services/alphaVantage.ts                                                *)
(***************************************************************************)
RATE_LIMIT_DELAY_MS == 2
AxiosTimeout == 1    \* timeout: 10000 of the client, less than one RATE_LIMIT_DELAY_MS
Retries == 3
StartTime == RATE_LIMIT_DELAY_MS   \* Date.now() is far past one delay at start
EndTime == StartTime + MaxTime

NoCall == 0
None == -1
Symbols == {"A", "B"}
BatchInputs == {<<"A">>, <<"A", "B">>}
NullResult == <<"null">>
EmptySeries == <<"empty">>

\* What the provider can answer: a payload with the phrases its Information
\* text contains (none: the field is absent) and its data part, or a
\* rejected request (network error, timeout).
RateLimitPhrases == {"API call frequency", "maximum allowed",
                     "Thank you for using Alpha Vantage", "rate", "limit"}
Responses ==
  [kind : {"payload"}, info : {{}, {"other"}, {"rate", "limit"}, {"API call frequency"}},
   data : {"valid", "missing"}]
  \cup {[kind |-> "error", info |-> {}, data |-> "missing"]}

isRateLimitResponse(resp) ==
  /\ resp.info # {}
  /\ resp.info \cap RateLimitPhrases # {}

\* getQuote without its catch block: a rejected request is thrown on.
QuoteResultThrows(symbol, resp) ==
  IF resp.kind = "error" THEN <<"thrown">>
  ELSE IF resp.info # {} /\ isRateLimitResponse(resp) THEN NullResult
  ELSE IF resp.data # "valid" THEN NullResult
  ELSE <<"quote", symbol>>

\* The value getQuote's inner function returns for a response.
QuoteResult(symbol, resp) ==
  IF resp.kind = "error" THEN NullResult
  ELSE IF resp.info # {} /\ isRateLimitResponse(resp) THEN NullResult
  ELSE IF resp.data # "valid" THEN NullResult
  ELSE <<"quote", symbol>>

\* The value getTimeSeries's inner function returns for a response.
SeriesResult(symbol, resp) ==
  IF resp.kind = "error" THEN EmptySeries
  ELSE IF resp.info # {} THEN EmptySeries
  ELSE IF resp.data # "valid" THEN EmptySeries
  ELSE <<"series", symbol>>

\* A handler that calls beginCooldown() for every response.
CallsBeginCooldownAlways(resp) == TRUE

\* Whether handling the response calls beginCooldown().
CallsBeginCooldown(resp) ==
  resp.kind = "payload" /\ resp.info # {} /\ isRateLimitResponse(resp)

\* beginCooldown() that forgets the delay.
beginCooldownNoDelay == av_now

\* The value beginCooldown() assigns to nextAvailableTime.
beginCooldown == av_now + RATE_LIMIT_DELAY_MS

\* throttle() that never waits.
throttleWaitsNever == FALSE

\* throttle(): whether the caller is suspended (until nextAvailableTime).
throttleWaits == av_now < nextAvailableTime

\* lock() that runs fn for every caller.
lockIsFreeAlways == TRUE

\* lock(): whether the caller's fn is run (the slot is empty).
lockIsFree == inflightPromise = NoCall

\* The end of the cooldown that the latest rate-limit answer to a getQuote
\* request calls for (0 when there was none): what a call made now must not
\* undercut.
CooldownFloor ==
  IF rateLimitedAt = None THEN 0 ELSE rateLimitedAt + RATE_LIMIT_DELAY_MS

\* What is recorded of a request when it reaches the network: whether a
\* cooldown was in force at that instant (early), and whether it undercut
\* the floor recorded when its call was made (low).
Issued(floor) == [issued |-> TRUE, early |-> (av_now < nextAvailableTime),
                  low |-> (av_now < floor), floor |-> None]
NotIssued == [issued |-> FALSE, early |-> FALSE, low |-> FALSE, floor |-> None]
Waiting == [issued |-> FALSE, early |-> FALSE, low |-> FALSE, floor |-> CooldownFloor]

\* The run's request for symbols[i], before and after it reaches the network.
BatchRequest(i) == [idx |-> i, httpAt |-> None] @@ Waiting
BatchIssued(i, floor) == [idx |-> i, httpAt |-> av_now] @@ Issued(floor)
NoRequest == [idx |-> 0, httpAt |-> None] @@ NotIssued
NoPrevious == [idx |-> 0, httpAt |-> None, doneAt |-> None]

\* A slot of the model that holds no call.
FreeSlot == [op |-> "none", sym |-> "none", busy |-> FALSE, pc |-> "free",
             owner |-> NoCall, wakeAt |-> None] @@ NotIssued

\* Locked calls that are running their fn (not sharing another call's promise).
RunningLocked == {c \in 1..MaxLocked : calls[c].pc \in {"throttle", "http"}}

\* getQuote(symbol) or getTimeSeries(symbol, interval) is called: lock(fn),
\* and, when fn is run, fn up to its first suspension.
Invoke(op, symbol) ==
  /\ UNCHANGED nonService
  /\ \E k \in 1..MaxLocked : calls[k].pc = "free"
  /\ LET id == CHOOSE k \in 1..MaxLocked :
                 calls[k].pc = "free" /\ \A j \in 1..(k - 1) : calls[j].pc # "free"
         base == [op |-> op, sym |-> symbol, busy |-> (RunningLocked # {})]
     IN IF lockIsFree
          THEN /\ inflightPromise' = id
               /\ calls' = [calls EXCEPT ![id] =
                    IF throttleWaits
                      THEN base @@ Waiting
                             @@ [pc |-> "throttle", owner |-> id, wakeAt |-> nextAvailableTime]
                      ELSE base @@ Issued(CooldownFloor)
                             @@ [pc |-> "http", owner |-> id, wakeAt |-> None]]
          ELSE /\ calls' = [calls EXCEPT ![id] =
                    base @@ NotIssued
                      @@ [pc |-> "joined", owner |-> inflightPromise, wakeAt |-> None]]
               /\ UNCHANGED inflightPromise
  /\ delivered' = {}
  /\ UNCHANGED <<av_now, nextAvailableTime, rateLimitedAt, b_pc, b_syms, b_i, b_retries,
                 lastRequestTime, b_wakeAt, b_req, b_prev, b_results>>

\* The timer of throttle() fires: the call goes on to its request.
ThrottleWake(c) ==
  /\ UNCHANGED nonService
  /\ c \in 1..MaxLocked
  /\ calls[c].pc = "throttle"
  /\ av_now >= calls[c].wakeAt
  /\ calls' = [calls EXCEPT ![c] = Issued(calls[c].floor) @@ [pc |-> "http", wakeAt |-> None]
                                      @@ calls[c]]
  /\ delivered' = {}
  /\ UNCHANGED <<av_now, inflightPromise, nextAvailableTime, rateLimitedAt, b_pc, b_syms, b_i,
                 b_retries, lastRequestTime, b_wakeAt, b_req, b_prev, b_results>>

\* What a caller is handed when the promise it awaits resolves: the call it
\* made (op, sym, busy, issued), the request that was answered (req), the
\* Information text of the answer (text) and the value the promise resolved
\* to (result).
Delivery(c, owner, resp, res) ==
  [op |-> calls[c].op, sym |-> calls[c].sym, busy |-> calls[c].busy,
   issued |-> calls[c].issued, locked |-> TRUE,
   req |-> <<calls[owner].op, calls[owner].sym>>, text |-> resp.info,
   kind |-> resp.kind, data |-> resp.data, result |-> res]

\* The same for the getQuote(symbol, true) of a getBatchQuotes run.
BatchDelivery(resp, res) ==
  [op |-> "quote", sym |-> b_syms[b_i], busy |-> FALSE,
   issued |-> b_req.issued, locked |-> FALSE,
   req |-> <<"quote", b_syms[b_i]>>, text |-> resp.info,
   kind |-> resp.kind, data |-> resp.data, result |-> res]

\* The request of a locked call settles: the rest of fn, the finally of
\* lock(), and every caller awaiting the promise receives its value.
Respond(c, resp) ==
  /\ UNCHANGED nonService
  /\ c \in 1..MaxLocked
  /\ calls[c].pc = "http"
  /\ LET res == IF calls[c].op = "quote" THEN QuoteResult(calls[c].sym, resp)
                                          ELSE SeriesResult(calls[c].sym, resp)
         served == {c} \cup {k \in 1..MaxLocked :
                               calls[k].pc = "joined" /\ calls[k].owner = c}
     IN /\ calls' = [k \in 1..MaxLocked |-> IF k \in served THEN FreeSlot ELSE calls[k]]
        /\ delivered' = {Delivery(k, c, resp, res) : k \in served}
  /\ nextAvailableTime' = IF CallsBeginCooldown(resp) THEN beginCooldown
                                                       ELSE nextAvailableTime
  /\ rateLimitedAt' = IF calls[c].op = "quote" /\ CallsBeginCooldown(resp)
                         THEN av_now ELSE rateLimitedAt
  /\ inflightPromise' = NoCall
  /\ UNCHANGED <<av_now, b_pc, b_syms, b_i, b_retries,
                 lastRequestTime, b_wakeAt, b_req, b_prev, b_results>>

\* A timer of the service that is due.
TimerDue ==
  \/ \E c \in 1..MaxLocked : calls[c].pc = "throttle" /\ av_now >= calls[c].wakeAt
  \/ b_pc \in {"spacing", "throttle", "retrywait"} /\ av_now >= b_wakeAt

\* Time passes; a timer fires before the clock moves past the instant it is due.
Advance ==
  /\ UNCHANGED nonService
  /\ av_now < EndTime
  /\ ~TimerDue
  /\ av_now' = av_now + 1
  /\ delivered' = {}
  /\ UNCHANGED <<inflightPromise, nextAvailableTime, rateLimitedAt, calls, b_pc, b_syms, b_i, b_retries,
                 lastRequestTime, b_wakeAt, b_req, b_prev, b_results>>

\* lastRequestTime = Date.now(); getQuote(symbol, true) up to its first
\* suspension: throttle(), then the request.
StartRequest(i) ==
  /\ lastRequestTime' = av_now
  /\ IF throttleWaits
       THEN /\ b_pc' = "throttle"
            /\ b_wakeAt' = nextAvailableTime
            /\ b_req' = BatchRequest(i)
       ELSE /\ b_pc' = "http"
            /\ b_wakeAt' = None
            /\ b_req' = BatchIssued(i, CooldownFloor)

\* fetchQuoteWithRetry(symbols[i], r) up to its first suspension; lrt is the
\* value of lastRequestTime it reads.
FetchEntry(i, r, lrt) ==
  /\ b_i' = i
  /\ b_retries' = r
  /\ IF av_now - lrt < RATE_LIMIT_DELAY_MS
       THEN /\ b_pc' = "spacing"
            /\ b_wakeAt' = av_now + (RATE_LIMIT_DELAY_MS - (av_now - lrt))
            /\ b_req' = NoRequest
            /\ lastRequestTime' = lrt
       ELSE StartRequest(i)

\* getBatchQuotes(symbols) is called.
BatchStart(symbols) ==
  /\ UNCHANGED nonService
  /\ b_pc = "idle"
  /\ b_syms' = symbols
  /\ b_results' = <<>>
  /\ b_prev' = NoPrevious
  /\ FetchEntry(1, Retries, 0)
  /\ delivered' = {}
  /\ UNCHANGED <<av_now, inflightPromise, nextAvailableTime, rateLimitedAt, calls>>

\* The spacing timer of fetchQuoteWithRetry fires.
BatchSpacingWake ==
  /\ UNCHANGED nonService
  /\ b_pc = "spacing"
  /\ av_now >= b_wakeAt
  /\ StartRequest(b_i)
  /\ delivered' = {}
  /\ UNCHANGED <<av_now, inflightPromise, nextAvailableTime, rateLimitedAt, calls, b_syms, b_i,
                 b_retries, b_prev, b_results>>

\* The timer of throttle() fires in the run's getQuote(symbol, true).
BatchThrottleWake ==
  /\ UNCHANGED nonService
  /\ b_pc = "throttle"
  /\ av_now >= b_wakeAt
  /\ b_pc' = "http"
  /\ b_req' = BatchIssued(b_i, b_req.floor)
  /\ b_wakeAt' = None
  /\ delivered' = {}
  /\ UNCHANGED <<av_now, inflightPromise, nextAvailableTime, rateLimitedAt, calls, b_syms, b_i,
                 b_retries, lastRequestTime, b_prev, b_results>>

\* ShouldRetry without the test of retries.
ShouldRetryAlways(quote, retries) == quote = NullResult

\* The branch else if (retries > 0) of fetchQuoteWithRetry, reached for a
\* null quote.
ShouldRetry(quote, retries) == quote = NullResult /\ retries > 0

\* The run's request settles: the rest of getQuote, then of
\* fetchQuoteWithRetry, then the loop over the symbols.
BatchRespond(resp) ==
  /\ UNCHANGED nonService
  /\ b_pc = "http"
  /\ nextAvailableTime' = IF CallsBeginCooldown(resp) THEN beginCooldown
                                                       ELSE nextAvailableTime
  /\ rateLimitedAt' = IF CallsBeginCooldown(resp) THEN av_now ELSE rateLimitedAt
  /\ b_prev' = [idx |-> b_req.idx, httpAt |-> b_req.httpAt, doneAt |-> av_now]
  /\ LET quote == QuoteResult(b_syms[b_i], resp)
         retry == ShouldRetry(quote, b_retries)
     IN /\ b_results' = IF retry THEN b_results
                                 ELSE Append(b_results, <<b_syms[b_i], quote>>)
        /\ IF retry
             THEN /\ b_pc' = "retrywait"
                  /\ b_wakeAt' = av_now + RATE_LIMIT_DELAY_MS
                  /\ b_req' = NoRequest
                  /\ UNCHANGED <<b_i, b_retries, lastRequestTime>>
           ELSE IF b_i < Len(b_syms)
             THEN FetchEntry(b_i + 1, Retries, lastRequestTime)
             ELSE /\ b_pc' = "done"
                  /\ b_req' = NoRequest
                  /\ b_wakeAt' = None
                  /\ UNCHANGED <<b_i, b_retries, lastRequestTime>>
  /\ delivered' = {BatchDelivery(resp, QuoteResult(b_syms[b_i], resp))}
  /\ UNCHANGED <<av_now, inflightPromise, calls, b_syms>>

\* The retry timer of fetchQuoteWithRetry fires.
BatchRetryWake ==
  /\ UNCHANGED nonService
  /\ b_pc = "retrywait"
  /\ av_now >= b_wakeAt
  /\ FetchEntry(b_i, b_retries - 1, lastRequestTime)
  /\ delivered' = {}
  /\ UNCHANGED <<av_now, inflightPromise, nextAvailableTime, rateLimitedAt, calls, b_syms,
                 b_prev, b_results>>

\* Time passes during a getBatchQuotes run.  A timer fires before the clock
\* moves past the instant it is due, and the client's timeout settles a
\* request before the clock moves past AxiosTimeout after it was made.
BatchAdvance ==
  /\ UNCHANGED nonService
  /\ b_pc \in {"spacing", "throttle", "http", "retrywait"}
  /\ av_now < StartTime + MaxBatchTime
  /\ ~TimerDue
  /\ b_pc = "http" => av_now < b_req.httpAt + AxiosTimeout
  /\ av_now' = av_now + 1
  /\ delivered' = {}
  /\ UNCHANGED <<inflightPromise, nextAvailableTime, rateLimitedAt, calls, b_pc, b_syms, b_i, b_retries,
                 lastRequestTime, b_wakeAt, b_req, b_prev, b_results>>

ServiceInit ==
  /\ av_now = StartTime
  /\ inflightPromise = NoCall
  /\ nextAvailableTime = 0
  /\ rateLimitedAt = None
  /\ calls = [k \in 1..MaxLocked |-> FreeSlot]
  /\ delivered = {}
  /\ b_pc = "idle" /\ b_syms = <<>> /\ b_i = 0 /\ b_retries = 0
  /\ lastRequestTime = 0 /\ b_wakeAt = None
  /\ b_req = NoRequest /\ b_prev = NoPrevious /\ b_results = <<>>

ServiceNext ==
  \/ \E op \in {"quote", "series"}, symbol \in Symbols : Invoke(op, symbol)
  \/ \E c \in 1..MaxLocked : ThrottleWake(c)
  \/ \E c \in 1..MaxLocked, resp \in Responses : Respond(c, resp)
  \/ \E symbols \in BatchInputs : BatchStart(symbols)
  \/ BatchSpacingWake
  \/ BatchThrottleWake
  \/ \E resp \in Responses : BatchRespond(resp)
  \/ BatchRetryWake
  \/ Advance

\* One getBatchQuotes run with no other caller of the service.
BatchNext ==
  \/ \E symbols \in BatchInputs : BatchStart(symbols)
  \/ BatchSpacingWake
  \/ BatchThrottleWake
  \/ \E resp \in Responses : BatchRespond(resp)
  \/ BatchRetryWake
  \/ BatchAdvance

(***************************************************************************)
(* hooks/useStockData.ts: the quote cache and fetchQuote, for one enabled  *)
(* hook with a symbol                                                      *)
(***************************************************************************)
QUOTE_TTL_MS == 2
NoQuote == [cached |-> FALSE, timestamp |-> 0]
NoChart == "[]"
SeriesData == {"s1", "s2"}
NoFetch == [called |-> FALSE, fresh |-> FALSE, stale |-> FALSE, calls |-> 0]

\* cachedQuote && Date.now() - cachedQuote.timestamp.getTime() < QUOTE_TTL_MS:
\* undefined without a cached quote, else a boolean.  The two falsy values
\* differ as dependencies of useCallback.
Fresh(cachedQuote, now) ==
  IF ~cachedQuote.cached THEN "undefined"
  ELSE IF now - cachedQuote.timestamp < QUOTE_TTL_MS THEN "true"
  ELSE "false"

\* fetchQuote() of a render whose isQuoteFresh is fresh, made when the hook
\* has inflight calls pending: the guard, the state writes before the await
\* and the getQuote call.  cache is stockQuotes[symbol] at that instant.
\* closures and error are s_closures and s_error at that instant.
fetchQuote(fresh, cache, inflight, closures, error) ==
  /\ s_last' = [called |-> TRUE,
                fresh |-> (cache.cached /\ s_now - cache.timestamp < QUOTE_TTL_MS),
                stale |-> (cache.cached /\ s_now - cache.timestamp > QUOTE_TTL_MS),
                calls |-> IF fresh = "true" THEN 0 ELSE 1]
  /\ IF fresh = "true"
       THEN /\ s_inflight' = inflight
            /\ s_closures' = closures
            /\ s_error' = error
            /\ UNCHANGED s_getQuoteCalls
       ELSE /\ s_inflight' = inflight + 1
            /\ s_closures' = Append(closures, cache.cached)
            /\ s_error' = Null
            /\ s_getQuoteCalls' = s_getQuoteCalls + 1

\* A render of the hook with the given cache, and the effect that calls
\* fetchQuote when its identity changed (isQuoteFresh is a dependency).
RenderHook(cache, inflight, first, closures, error) ==
  /\ isQuoteFresh' = Fresh(cache, s_now)
  /\ IF first \/ isQuoteFresh' # isQuoteFresh
       THEN fetchQuote(isQuoteFresh', cache, inflight, closures, error)
       ELSE /\ s_inflight' = inflight
            /\ s_closures' = closures
            /\ s_error' = error
            /\ UNCHANGED <<s_getQuoteCalls, s_last>>

\* The first render and its effect.
StockMount ==
  /\ UNCHANGED nonStock
  /\ s_phase = "new"
  /\ s_phase' = "mounted"
  /\ RenderHook(stockQuotes, s_inflight, TRUE, s_closures, s_error)
  /\ s_seriesPending' = s_seriesPending + 1
  /\ s_seriesCalls' = s_seriesCalls + 1
  /\ UNCHANGED <<s_now, stockQuotes, chartData, s_lastSeries, s_null>>

\* The component re-renders for a reason of its own (a parent render, the
\* chart data arriving).
StockRender ==
  /\ UNCHANGED nonStock
  /\ s_phase = "mounted"
  /\ s_getQuoteCalls < MaxQuoteCalls
  /\ RenderHook(stockQuotes, s_inflight, FALSE, s_closures, s_error)
  /\ UNCHANGED <<s_now, s_phase, stockQuotes, seriesvars, s_null>>

\* The consumer calls refetch() of the latest render: fetchQuote().
StockRefetch ==
  /\ UNCHANGED nonStock
  /\ s_phase = "mounted"
  /\ s_getQuoteCalls < MaxQuoteCalls
  /\ fetchQuote(isQuoteFresh, stockQuotes, s_inflight, s_closures, s_error)
  /\ UNCHANGED <<s_now, s_phase, stockQuotes, isQuoteFresh, seriesvars, s_null>>

\* getQuote resolves to a quote with the given timestamp: the cache is
\* written, and the hook re-renders.
StockQuoteArrives(timestamp) ==
  /\ UNCHANGED nonStock
  /\ s_inflight > 0
  /\ s_getQuoteCalls < MaxQuoteCalls
  /\ stockQuotes' = [cached |-> TRUE, timestamp |-> timestamp]
  /\ RenderHook(stockQuotes', s_inflight - 1, FALSE, Tail(s_closures), s_error)
  /\ UNCHANGED <<s_now, s_phase, seriesvars, s_null>>

\* What fetchQuote leaves in localError and error[key] when getQuote
\* resolved to null: the closure's cachedQuote makes it return, and without
\* one it sets both errors.
NullQuoteError(cached, error) ==
  IF cached THEN error ELSE "Failed to fetch valid quote"

\* getQuote resolves to null: nothing is cached; the finally block writes
\* the loading state, and the hook re-renders.
StockNullArrives ==
  /\ UNCHANGED nonStock
  /\ s_inflight > 0
  /\ s_getQuoteCalls < MaxQuoteCalls
  /\ UNCHANGED <<s_now, s_phase, stockQuotes, seriesvars>>
  /\ LET error == NullQuoteError(Head(s_closures), s_error)
     IN /\ RenderHook(stockQuotes, s_inflight - 1, FALSE, Tail(s_closures), error)
        /\ s_null' = [seen |-> TRUE, cached |-> Head(s_closures), error |-> error,
                      kept |-> (stockQuotes' = stockQuotes)]

\* Time passes.
StockAdvance ==
  /\ UNCHANGED nonStock
  /\ s_now < MaxStockTime
  /\ s_now' = s_now + 1
  /\ UNCHANGED <<s_phase, stockQuotes, isQuoteFresh, s_inflight, s_getQuoteCalls, s_last,
                 seriesvars, errvars>>

\* fetchTimeSeries() is called as the second step of refetch(): up to the
\* await of getTimeSeries.  (The effect calls it after the mount.)
StockSeriesFetch ==
  /\ UNCHANGED nonStock
  /\ s_phase = "mounted"
  /\ s_seriesCalls < MaxSeriesCalls
  /\ s_seriesPending' = s_seriesPending + 1
  /\ s_seriesCalls' = s_seriesCalls + 1
  /\ UNCHANGED <<s_now, s_phase, stockQuotes, isQuoteFresh, s_inflight, s_getQuoteCalls,
                 s_last, chartData, s_lastSeries, errvars>>

\* getTimeSeries resolves, to a series or to [] (its value for every
\* failure): setChartData, and the hook re-renders.
StockSeriesArrives(data) ==
  /\ UNCHANGED nonStock
  /\ s_seriesPending > 0
  /\ s_getQuoteCalls < MaxQuoteCalls
  /\ s_seriesPending' = s_seriesPending - 1
  /\ chartData' = data
  /\ s_lastSeries' = [kind |-> IF data = NoChart THEN "failed" ELSE "ok",
                      before |-> chartData]
  /\ RenderHook(stockQuotes, s_inflight, FALSE, s_closures, s_error)
  /\ UNCHANGED <<s_now, s_phase, stockQuotes, s_seriesCalls, s_null>>

StockInit ==
  /\ s_now = 0
  /\ s_phase = "new"
  /\ stockQuotes = NoQuote
  /\ isQuoteFresh = "undefined"
  /\ s_inflight = 0
  /\ s_getQuoteCalls = 0
  /\ s_last = NoFetch
  /\ chartData = NoChart
  /\ s_seriesPending = 0
  /\ s_seriesCalls = 0
  /\ s_lastSeries = [kind |-> "none", before |-> NoChart]
  /\ s_error = Null
  /\ s_closures = <<>>
  /\ s_null = [seen |-> FALSE, cached |-> FALSE, error |-> Null, kept |-> TRUE]

StockNext ==
  \/ StockMount
  \/ StockRender
  \/ StockRefetch
  \/ \E timestamp \in 0..s_now : StockQuoteArrives(timestamp)
  \/ StockNullArrives
  \/ StockAdvance
  \/ StockSeriesFetch
  \/ \E data \in SeriesData \cup {NoChart} : StockSeriesArrives(data)

(***************************************************************************)
(* hooks/useMarketIndices.ts: fetchIndices of one enabled hook.  Cycles    *)
(* are started by usePollingData, so a cycle starts only when none runs.   *)
(***************************************************************************)
RATE_LIMIT_COOLDOWN_MS == 2
INDEX_SYMBOLS == <<"SPY", "DIA", "QQQ">>
IndexSymbols == {INDEX_SYMBOLS[k] : k \in 1..Len(INDEX_SYMBOLS)}
Prices == {1, 2}
NotReturned == <<[symbol |-> "none", value |-> 0]>>
IndexResponses ==
  [kind : {"ok"}, value : Prices] \cup [kind : {"429", "error"}, value : {0}]

IsBlockedNever(symbol, now) == FALSE

\* blockedUntil && blockedUntil > now
IsBlocked(symbol, now) ==
  rateLimitedUntil[symbol] # 0 /\ rateLimitedUntil[symbol] > now

\* The for loop from position k on: the position of the first symbol that
\* is not skipped, Len(INDEX_SYMBOLS) + 1 when every remaining one is.
RECURSIVE NextCall(_, _)
NextCall(k, now) ==
  IF k > Len(INDEX_SYMBOLS) THEN k
  ELSE IF IsBlocked(INDEX_SYMBOLS[k], now) THEN NextCall(k + 1, now)
  ELSE k

NoSuccessResultEmpty(snap, upd) == upd

\* if (updated.length === 0) return marketIndices
NoSuccessResult(snap, upd) == snap

\* The loop runs on from position k with the given updated: symbols in
\* cooldown are skipped, then either the next request is awaited or the
\* loop ends and the cycle returns.
RunLoop(k, now, upd, outcome) ==
  LET j == NextCall(k, now)
      skipped == {INDEX_SYMBOLS[m] : m \in k..(j - 1)}
      out == [sym \in IndexSymbols |->
                IF sym \in skipped THEN "skipped"
                ELSE IF j <= Len(INDEX_SYMBOLS) /\ sym = INDEX_SYMBOLS[j] THEN "called"
                ELSE outcome[sym]]
  IN /\ x_outcome' = out
     /\ updated' = upd
     /\ IF j <= Len(INDEX_SYMBOLS)
          THEN /\ x_pc' = "await"
               /\ x_i' = j
               /\ UNCHANGED <<marketIndices, x_returned>>
          ELSE /\ x_pc' = "idle"
               /\ x_i' = 0
               /\ IF Len(upd) = 0
                    THEN /\ x_returned' = NoSuccessResult(x_snap', upd)
                         /\ UNCHANGED marketIndices
                    ELSE /\ marketIndices' = upd
                         /\ x_returned' = upd

\* usePollingData calls fetchIndices of the latest render.
IdxStart ==
  /\ UNCHANGED nonIndices
  /\ x_pc = "idle"
  /\ x_now' = i_now
  /\ x_snap' = marketIndices
  /\ x_before' = marketIndices
  /\ RunLoop(1, i_now, <<>>, [sym \in IndexSymbols |-> "none"])
  /\ UNCHANGED <<i_now, rateLimitedUntil, x_limitedAt>>

\* The awaited axios.get settles: a quote, a 429 rejection or another one.
IdxRespond(resp) ==
  /\ UNCHANGED nonIndices
  /\ x_pc = "await"
  /\ UNCHANGED <<i_now, x_now, x_snap, x_before>>
  /\ LET symbol == INDEX_SYMBOLS[x_i]
     IN /\ rateLimitedUntil' =
             IF resp.kind = "429"
               THEN [rateLimitedUntil EXCEPT ![symbol] = i_now + RATE_LIMIT_COOLDOWN_MS]
               ELSE rateLimitedUntil
        /\ x_limitedAt' =
             IF resp.kind = "429" THEN [x_limitedAt EXCEPT ![symbol] = i_now]
             ELSE x_limitedAt
        /\ RunLoop(x_i + 1, x_now,
                   IF resp.kind = "ok"
                     THEN Append(updated, [symbol |-> symbol, value |-> resp.value])
                     ELSE updated,
                   [x_outcome EXCEPT ![symbol] = resp.kind])

\* Time passes.
IdxAdvance ==
  /\ UNCHANGED nonIndices
  /\ i_now < MaxIdxTime
  /\ i_now' = i_now + 1
  /\ UNCHANGED <<rateLimitedUntil, marketIndices, x_pc, x_i, x_now, x_snap, updated,
                 x_before, x_outcome, x_limitedAt, x_returned>>

IndicesInit ==
  /\ i_now = 1
  /\ rateLimitedUntil = [sym \in IndexSymbols |-> 0]
  /\ marketIndices = <<>>
  /\ x_pc = "idle"
  /\ x_i = 0
  /\ x_now = 0
  /\ x_snap = <<>>
  /\ updated = <<>>
  /\ x_before = <<>>
  /\ x_outcome = [sym \in IndexSymbols |-> "none"]
  /\ x_limitedAt = [sym \in IndexSymbols |-> None]
  /\ x_returned = NotReturned

IndicesNext ==
  \/ IdxStart
  \/ \E resp \in IndexResponses : IdxRespond(resp)
  \/ IdxAdvance

(***************************************************************************)
(* hooks/usePortfolioData.ts: fetchPortfolio of one enabled hook.  The     *)
(* portfolioState atom keeps its default [], so effectivePortfolio is the  *)
(* portfolio parsed from the environment.  Cycles are started by           *)
(* usePollingData, so a cycle starts only when none runs.                  *)
(***************************************************************************)
PortfolioSymbols == {"IBM", "MSFT"}
PortfolioPrices == {240, 250, 260, 270}

\* parseEnvPortfolio() of "IBM:100:250,MSFT:75"
initialPortfolio ==
  [sym \in PortfolioSymbols |->
     [shares |-> IF sym = "IBM" THEN 100 ELSE 75,
      avgCost |-> IF sym = "IBM" THEN 250 ELSE 0,
      currentPrice |-> 0, totalValue |-> 0, gainLoss |-> 0, gainLossPercent |-> 0,
      hasQuote |-> FALSE]]

effectivePortfolio == initialPortfolio

\* The entries getBatchQuotes can resolve to: per symbol a price, or None for
\* null.  A rejected getBatchQuotes leaves quotes = {}, which reads as None
\* for every symbol.
BatchQuotes == [PortfolioSymbols -> PortfolioPrices \cup {None}]

\* MapHolding with the percentage taken of the price instead of avgCost.
MapHoldingPercentOfPrice(holding, price) ==
  LET hasQuote == price # None
  IN [holding EXCEPT
        !.currentPrice = IF hasQuote THEN price ELSE @,
        !.totalValue = IF hasQuote THEN price * holding.shares ELSE @,
        !.gainLoss = IF hasQuote THEN (price - holding.avgCost) * holding.shares ELSE @,
        !.gainLossPercent = IF hasQuote /\ holding.avgCost # 0
                              THEN ((price - holding.avgCost) * 100) \div price ELSE @,
        !.hasQuote = hasQuote]

\* The body of effectivePortfolio.map(...): the holding returned for a
\* holding of effectivePortfolio and its entry of quotes.
MapHolding(holding, price) ==
  LET hasQuote == price # None
  IN [holding EXCEPT
        !.currentPrice = IF hasQuote THEN price ELSE @,
        !.totalValue = IF hasQuote THEN price * holding.shares ELSE @,
        !.gainLoss = IF hasQuote THEN (price - holding.avgCost) * holding.shares ELSE @,
        !.gainLossPercent = IF hasQuote /\ holding.avgCost # 0
                              THEN ((price - holding.avgCost) * 100) \div holding.avgCost ELSE @,
        !.hasQuote = hasQuote]

\* usePollingData calls fetchPortfolio: up to the await of getBatchQuotes.
PfStart ==
  /\ UNCHANGED nonPortfolio
  /\ f_pc = "idle"
  /\ f_pc' = "await"
  /\ UNCHANGED <<f_data, f_quotes, f_lastOk>>

\* getBatchQuotes settles: the map over effectivePortfolio and the return.
PfFinish(quotes) ==
  /\ UNCHANGED nonPortfolio
  /\ f_pc = "await"
  /\ f_pc' = "idle"
  /\ f_quotes' = quotes
  /\ f_data' = [sym \in PortfolioSymbols |-> MapHolding(effectivePortfolio[sym], quotes[sym])]
  /\ f_lastOk' = [sym \in PortfolioSymbols |->
                    IF quotes[sym] # None THEN f_data'[sym] ELSE f_lastOk[sym]]

PortfolioInit ==
  /\ f_pc = "idle"
  /\ f_data = effectivePortfolio
  /\ f_quotes = [sym \in PortfolioSymbols |-> None]
  /\ f_lastOk = effectivePortfolio

PortfolioNext ==
  \/ PfStart
  \/ \E quotes \in BatchQuotes : PfFinish(quotes)

(***************************************************************************)
(* services/alphaVantage.ts: what getTimeSeries makes of the payload.      *)
(* Strings are sequences of characters; prices are held in hundredths, so  *)
(* parseFloat is exact for the two decimals the provider sends.  Dates     *)
(* stand for ISO date strings in their order; as property keys they are    *)
(* not array indices, so Object.entries lists them in insertion order.     *)
(***************************************************************************)
Digits == <<"0", "1", "2", "3", "4", "5", "6", "7", "8", "9">>
IsDigit(ch) == \E d \in 1..10 : Digits[d] = ch
DigitVal(ch) == (CHOOSE d \in 1..10 : Digits[d] = ch) - 1
NaN == -2

\* The longest prefix of s that holds digits only.
RECURSIVE DigitPrefix(_)
DigitPrefix(s) ==
  IF s = <<>> \/ ~IsDigit(Head(s)) THEN <<>> ELSE <<Head(s)>> \o DigitPrefix(Tail(s))

\* The number a sequence of digits denotes.
RECURSIVE NatOf(_)
NatOf(ds) ==
  IF ds = <<>> THEN 0 ELSE NatOf(SubSeq(ds, 1, Len(ds) - 1)) * 10 + DigitVal(ds[Len(ds)])

\* parseInt(s, 10) of an unsigned string: the digits before the first other
\* character, NaN when there are none.
parseInt(s) ==
  LET ds == DigitPrefix(s) IN IF ds = <<>> THEN NaN ELSE NatOf(ds)

\* parseFloat(s) of an unsigned string, in hundredths: integer digits, then
\* an optional point and fraction digits; NaN when neither part has a digit.
parseFloat(s) ==
  LET ip == DigitPrefix(s)
      rest == SubSeq(s, Len(ip) + 1, Len(s))
      fp == IF rest # <<>> /\ Head(rest) = "." THEN DigitPrefix(Tail(rest)) ELSE <<>>
      f2 == SubSeq(fp \o <<"0", "0">>, 1, 2)
  IN IF ip = <<>> /\ fp = <<>> THEN NaN ELSE NatOf(ip) * 100 + NatOf(f2)

\* The decimal digits of a natural number.
RECURSIVE Dec(_)
Dec(n) == IF n < 10 THEN <<Digits[n + 1]>> ELSE Dec(n \div 10) \o <<Digits[(n % 10) + 1]>>

\* The provider's text of a price held in hundredths, as "148.00".
FormatPrice(n) == Dec(n \div 100) \o <<".">> \o <<Digits[((n \div 10) % 10) + 1], Digits[(n % 10) + 1]>>

SeriesIntervals == {"daily", "weekly", "monthly"}
functionMap == [daily |-> "TIME_SERIES_DAILY", weekly |-> "TIME_SERIES_WEEKLY",
                monthly |-> "TIME_SERIES_MONTHLY"]
keyMap == [daily |-> "Time Series (Daily)", weekly |-> "Time Series (Weekly)",
           monthly |-> "Time Series (Monthly)"]

\* The key under which the provider sends the rows of a function.
ProviderKey(fn) == CHOOSE k \in {keyMap[i] : i \in SeriesIntervals} :
                     \E i \in SeriesIntervals : functionMap[i] = fn /\ keyMap[i] = k

Dates == 1..MaxDate
\* The values of a row the provider can hold.
RowValues ==
  { [open |-> 14800, high |-> 15100, low |-> 14700, close |-> 15025, volume |-> 50000000],
    [open |-> 705, high |-> 710, low |-> 700, close |-> 709, volume |-> 0],
    [open |-> 100, high |-> 100, low |-> 100, close |-> 100, volume |-> 12] }

\* The rows a provider can hold: at most MaxRows rows of distinct dates, in
\* any order.
SentRows ==
  { rows \in UNION { [1..n -> [date : Dates, values : RowValues]] : n \in 0..MaxRows } :
      \A i, j \in 1..Len(rows) : i # j => rows[i].date # rows[j].date }

\* A row as the provider sends it: the date and the five fields as text.
RawRow(row) ==
  [date |-> row.date,
   point |-> [open |-> FormatPrice(row.values.open), high |-> FormatPrice(row.values.high),
              low |-> FormatPrice(row.values.low), close |-> FormatPrice(row.values.close),
              volume |-> Dec(row.values.volume)]]

NoPayload == [Information |-> FALSE, key |-> "none", entries |-> <<>>]

\* The keys response.data can hold for a function: that of its time series,
\* or an error message in its place.
PayloadKeys(fn) == {ProviderKey(fn), "Error Message"}

AllPayloadKeys == UNION { PayloadKeys(functionMap[i]) : i \in SeriesIntervals }

\* response.data: whether it holds an Information message, and the entries
\* of its time-series object under the key it was sent with.
RawPayload(info, key, sent) ==
  [Information |-> info, key |-> key,
   entries |-> IF key = "Error Message" THEN <<>>
               ELSE [i \in 1..Len(sent) |-> RawRow(sent[i])]]

\* Array.prototype.reverse
Reverse(s) == [i \in 1..Len(s) |-> s[Len(s) + 1 - i]]

\* The callback of Object.entries(timeSeriesRaw).map(...)
MapPoint(entry) ==
  [date |-> entry.date,
   open |-> parseFloat(entry.point.open), high |-> parseFloat(entry.point.high),
   low |-> parseFloat(entry.point.low), close |-> parseFloat(entry.point.close),
   volume |-> parseInt(entry.point.volume)]

\* ParseTimeSeries without the final reverse().
ParseTimeSeriesNoReverse(raw, interval) ==
  IF raw.Information THEN <<>>
  ELSE IF raw.key # keyMap[interval] THEN <<>>
  ELSE [i \in 1..Len(raw.entries) |-> MapPoint(raw.entries[i])]

\* The value getTimeSeries returns for response.data.
ParseTimeSeries(raw, interval) ==
  IF raw.Information THEN <<>>
  ELSE IF raw.key # keyMap[interval] THEN <<>>
  ELSE Reverse([i \in 1..Len(raw.entries) |-> MapPoint(raw.entries[i])])

\* getTimeSeries(symbol, interval) up to the await of api.get.
TsRequest(interval) ==
  /\ UNCHANGED nonSeries
  /\ ts_pc \in {"idle", "done"}
  /\ ts_pc' = "await"
  /\ ts_interval' = interval
  /\ ts_sent' = <<>>
  /\ ts_raw' = NoPayload
  /\ ts_result' = <<>>

\* The provider answers the function asked for, with an Information message,
\* an error message or the rows it holds; getTimeSeries returns.
TsRespond(info, key, sent) ==
  /\ UNCHANGED nonSeries
  /\ ts_pc = "await"
  /\ ts_pc' = "done"
  /\ key \in PayloadKeys(functionMap[ts_interval])
  /\ ts_sent' = IF key = "Error Message" THEN <<>> ELSE sent
  /\ ts_raw' = RawPayload(info, key, sent)
  /\ ts_result' = ParseTimeSeries(ts_raw', ts_interval)
  /\ UNCHANGED ts_interval

SeriesInit ==
  /\ ts_pc = "idle"
  /\ ts_interval = "daily"
  /\ ts_sent = <<>>
  /\ ts_raw = NoPayload
  /\ ts_result = <<>>

SeriesNext ==
  \/ \E interval \in SeriesIntervals : TsRequest(interval)
  \/ \E info \in BOOLEAN, key \in AllPayloadKeys, sent \in SentRows : TsRespond(info, key, sent)

(***************************************************************************)
(* services/alphaVantage.ts: what getQuote makes of the payload, and what  *)
(* fetchPortfolio makes of the value getQuote resolved to.                 *)
(***************************************************************************)
\* The texts the provider can send for a price: a price, a text without a
\* leading number, the empty text, and digits followed by other characters.
PriceTexts == {FormatPrice(26000), <<"N", "/", "A">>, <<>>, <<"1", "2", "x">>}
ChangeTexts == {FormatPrice(150), <<>>}
VolumeTexts == {Dec(12), <<"-">>}

\* The text of '10. change percent' when the payload holds it.
ChangePercentText == FormatPrice(150) \o <<"%">>

\* response.data of GLOBAL_QUOTE: the kind of its Information message, whether
\* it holds a 'Global Quote' with '01. symbol', and the fields of that object.
\* '10. change percent' can be absent; the other fields are texts.
QuotePayloads ==
  [info : {"none", "other", "rate"}, hasSymbol : BOOLEAN,
   price : PriceTexts, change : ChangeTexts, hasChangePercent : BOOLEAN,
   volume : VolumeTexts, day : Dates]

NoQuotePayload ==
  [info |-> "none", hasSymbol |-> FALSE, price |-> <<>>, change |-> <<>>,
   hasChangePercent |-> FALSE, volume |-> <<>>, day |-> 1]

\* null, as a value of the shape of a quote.
NullQuote ==
  [symbol |-> "null", price |-> NaN, change |-> NaN, changePercent |-> NaN,
   volume |-> NaN, timestamp |-> 0]

\* String.prototype.replace('%', ''): the text without its first "%".
RECURSIVE RemovePercent(_)
RemovePercent(s) ==
  IF s = <<>> THEN <<>>
  ELSE IF Head(s) = "%" THEN Tail(s) ELSE <<Head(s)>> \o RemovePercent(Tail(s))

\* The value getQuote resolves to for response.data.  Reading replace of an
\* absent '10. change percent' throws, and the catch block returns null.
ParseQuote(symbol, raw) ==
  IF raw.info = "rate" THEN NullQuote
  ELSE IF ~raw.hasSymbol THEN NullQuote
  ELSE IF ~raw.hasChangePercent THEN NullQuote
  ELSE [symbol |-> symbol, price |-> parseFloat(raw.price), change |-> parseFloat(raw.change),
        changePercent |-> parseFloat(RemovePercent(ChangePercentText)),
        volume |-> parseInt(raw.volume), timestamp |-> raw.day]

\* const hasQuote = quote?.price != null
HasQuote(quote) == quote # NullQuote

\* getQuote(symbol) up to the await of api.get.
QtRequest(symbol) ==
  /\ UNCHANGED nonQuote
  /\ q_pc \in {"idle", "done"}
  /\ q_pc' = "await"
  /\ q_symbol' = symbol
  /\ q_raw' = NoQuotePayload
  /\ q_result' = NullQuote
  /\ q_hasQuote' = FALSE

\* The provider answers; getQuote returns, and fetchPortfolio reads the value.
QtRespond(raw) ==
  /\ UNCHANGED nonQuote
  /\ q_pc = "await"
  /\ q_pc' = "done"
  /\ q_raw' = raw
  /\ q_result' = ParseQuote(q_symbol, raw)
  /\ q_hasQuote' = HasQuote(q_result')
  /\ UNCHANGED q_symbol

QuoteInit ==
  /\ q_pc = "idle"
  /\ q_symbol = "A"
  /\ q_raw = NoQuotePayload
  /\ q_result = NullQuote
  /\ q_hasQuote = FALSE

QuoteNext ==
  \/ \E symbol \in Symbols : QtRequest(symbol)
  \/ \E raw \in QuotePayloads : QtRespond(raw)

(***************************************************************************)
(* hooks/useMarketIndices.ts: the enabled option.  The hook passes         *)
(* fetchIndices, interval = enabled ? INDICES_POLLING_INTERVAL_MS : 0,     *)
(* immediate = true and the default enabled = true to usePollingData.      *)
(* fetchIndices is a new closure in every render, so every render re-runs  *)
(* the poller's effects.  A cycle asks for every symbol here: cooldowns    *)
(* only remove requests.                                                   *)
(***************************************************************************)
NoInterval == "none"
NoInvocation == [state |-> "none", closure |-> FALSE, trigger |-> "none", enabled |-> FALSE, i |-> 0]
NoRequestYet == [issued |-> FALSE, closure |-> FALSE, trigger |-> "none", enabled |-> FALSE]
Closure(en) == IF en THEN "enabled" ELSE "disabled"

fetchIndicesReturnsEarlyNever(en) == FALSE

\* if (!enabled) return marketIndices
fetchIndicesReturnsEarly(en) == ~en

\* fetchData() of the poller calling fetchIndices of a render whose enabled
\* is closure; trigger names the caller, and the latest render has enabled
\* latest.
HookFetchData(closure, trigger, latest) ==
  IF m_isFetching
    THEN UNCHANGED <<m_isFetching, m_inv, m_requests, m_lastReq>>
    ELSE /\ m_isFetching' = TRUE
         /\ IF fetchIndicesReturnsEarly(closure)
              THEN /\ m_inv' = [state |-> "resolved", closure |-> closure, trigger |-> trigger,
                                enabled |-> latest, i |-> 0]
                   /\ UNCHANGED <<m_requests, m_lastReq>>
              ELSE /\ m_inv' = [state |-> "request", closure |-> closure, trigger |-> trigger,
                                enabled |-> latest, i |-> 1]
                   /\ m_requests' = m_requests + 1
                   /\ m_lastReq' = [issued |-> TRUE, closure |-> closure, trigger |-> trigger,
                                    enabled |-> latest]

\* The polling effect of a render: the cleanup of the previous run, then
\* setInterval(fetchData, interval) when interval > 0.
HookArm(en) == m_timer' = IF en THEN Closure(en) ELSE NoInterval

\* The first render with options.enabled = en, and the poller's effects.
HookMount(en) ==
  /\ UNCHANGED nonHook
  /\ m_phase = "new"
  /\ m_phase' = "mounted"
  /\ m_enabled' = en
  /\ m_everEnabled' = en
  /\ m_calls' = m_calls + 1
  /\ m_hasFetchedOnce' = TRUE
  /\ m_poll' = [m_poll EXCEPT !.loading = TRUE]
  /\ HookFetchData(en, "mount", en)
  /\ HookArm(en)
  /\ UNCHANGED <<m_atom, m_idle>>

\* A later render with options.enabled = en: the initial-fetch effect runs
\* again and returns at hasFetchedOnce; the polling effect re-arms.
HookRender(en) ==
  /\ UNCHANGED nonHook
  /\ m_phase = "mounted"
  /\ m_enabled' = en
  /\ m_everEnabled' = (m_everEnabled \/ en)
  /\ HookArm(en)
  /\ UNCHANGED <<m_phase, m_hasFetchedOnce, m_isFetching, m_inv, m_poll, m_atom, m_calls,
                 m_requests, m_lastReq, m_idle>>

\* The armed interval fires.
HookTick ==
  /\ UNCHANGED nonHook
  /\ m_phase = "mounted"
  /\ m_timer # NoInterval
  /\ m_calls < MaxHookCalls
  /\ m_calls' = m_calls + 1
  /\ HookFetchData(m_timer = Closure(TRUE), "tick", m_enabled)
  /\ m_idle' = IF m_enabled THEN m_idle ELSE m_idle + 1
  /\ UNCHANGED <<m_phase, m_enabled, m_timer, m_hasFetchedOnce, m_poll, m_atom, m_everEnabled>>

\* The consumer calls the refetch the latest render returned: async () => {}
\* when that render was disabled, the poller's fetchData otherwise.
HookRefetch ==
  /\ UNCHANGED nonHook
  /\ m_phase = "mounted"
  /\ m_calls < MaxHookCalls
  /\ m_calls' = m_calls + 1
  /\ IF m_enabled
       THEN HookFetchData(m_enabled, "refetch", m_enabled) /\ UNCHANGED m_idle
       ELSE /\ m_idle' = m_idle + 1
            /\ UNCHANGED <<m_isFetching, m_inv, m_requests, m_lastReq>>
  /\ UNCHANGED <<m_phase, m_enabled, m_timer, m_hasFetchedOnce, m_poll, m_atom, m_everEnabled>>

\* The awaited axios.get of the cycle settles; the loop asks for the next
\* symbol, or the cycle returns and fetchData writes the poller's state.
HookRespond(ok) ==
  /\ UNCHANGED nonHook
  /\ m_inv.state = "request"
  /\ IF m_inv.i < Len(INDEX_SYMBOLS)
       THEN /\ m_inv' = [m_inv EXCEPT !.i = @ + 1]
            /\ m_requests' = m_requests + 1
            /\ m_lastReq' = [issued |-> TRUE, closure |-> m_inv.closure,
                             trigger |-> m_inv.trigger, enabled |-> m_inv.enabled]
            /\ m_atom' = IF ok THEN "pending" ELSE m_atom
            /\ UNCHANGED <<m_isFetching, m_poll>>
       ELSE /\ m_inv' = NoInvocation
            /\ m_isFetching' = FALSE
            /\ m_atom' = IF ok \/ m_atom = "pending" THEN "updated" ELSE m_atom
            /\ m_poll' = [data |-> m_atom', loading |-> FALSE, error |-> Null]
            /\ UNCHANGED <<m_requests, m_lastReq>>
  /\ UNCHANGED <<m_phase, m_enabled, m_timer, m_hasFetchedOnce, m_calls, m_everEnabled, m_idle>>

\* The promise of a fetchIndices call that returned marketIndices at once
\* resolves: fetchData writes the poller's state.
HookSettleEarly ==
  /\ UNCHANGED nonHook
  /\ m_inv.state = "resolved"
  /\ m_inv' = NoInvocation
  /\ m_isFetching' = FALSE
  /\ m_poll' = [data |-> m_atom, loading |-> FALSE, error |-> Null]
  /\ UNCHANGED <<m_phase, m_enabled, m_timer, m_hasFetchedOnce, m_atom, m_calls, m_requests,
                 m_lastReq, m_everEnabled, m_idle>>

\* The component unmounts: the cleanup of the polling effect.
HookUnmount ==
  /\ UNCHANGED nonHook
  /\ m_phase = "mounted"
  /\ m_phase' = "gone"
  /\ m_timer' = NoInterval
  /\ UNCHANGED <<m_enabled, m_hasFetchedOnce, m_isFetching, m_inv, m_poll, m_atom, m_calls,
                 m_requests, m_lastReq, m_everEnabled, m_idle>>

\* What the hook returns in the latest render.
HookReport ==
  IF ~m_enabled
    THEN [data |-> m_atom, loading |-> FALSE, error |-> Null]
    ELSE m_poll

HookInit ==
  /\ m_phase = "new"
  /\ m_enabled = FALSE
  /\ m_timer = NoInterval
  /\ m_hasFetchedOnce = FALSE
  /\ m_isFetching = FALSE
  /\ m_inv = NoInvocation
  /\ m_poll = [data |-> "empty", loading |-> FALSE, error |-> Null]
  /\ m_atom = "empty"
  /\ m_calls = 0
  /\ m_requests = 0
  /\ m_lastReq = NoRequestYet
  /\ m_everEnabled = FALSE
  /\ m_idle = 0

HookNext ==
  \/ \E en \in BOOLEAN : HookMount(en)
  \/ \E en \in BOOLEAN : HookRender(en)
  \/ HookTick
  \/ HookRefetch
  \/ \E ok \in BOOLEAN : HookRespond(ok)
  \/ HookSettleEarly
  \/ HookUnmount

(***************************************************************************)
(* Specifications                                                          *)
(***************************************************************************)
Init == PollerInit /\ ServiceInit /\ StockInit /\ IndicesInit /\ PortfolioInit /\ SeriesInit
        /\ QuoteInit /\ HookInit

SpecPoller == Init /\ [][PollerNext]_vars

SpecService == Init /\ [][ServiceNext]_vars

SpecStock == Init /\ [][StockNext]_vars

SpecIndices == Init /\ [][IndicesNext]_vars

SpecPortfolio == Init /\ [][PortfolioNext]_vars

SpecSeries == Init /\ [][SeriesNext]_vars

SpecQuote == Init /\ [][QuoteNext]_vars

SpecHook == Init /\ [][HookNext]_vars

\* One getBatchQuotes run under the scheduling the code guarantees: timers
\* fire, the clock moves, and the client's timeout of 10000 ms settles every
\* request.
SpecBatch ==
  /\ Init /\ [][BatchNext]_vars
  /\ WF_vars(BatchSpacingWake)
  /\ WF_vars(BatchThrottleWake)
  /\ WF_vars(BatchRetryWake)
  /\ WF_vars(\E resp \in Responses : BatchRespond(resp))
  /\ WF_vars(BatchAdvance)

\* The index hook under the scheduling the code guarantees: an armed
\* interval fires, and the continuation of a resolved promise runs.  The
\* axios.get of fetchIndices carries no timeout option, so nothing makes a
\* pending request settle: HookRespond is left to the network.
SpecHookLive ==
  /\ Init /\ [][HookNext]_vars
  /\ WF_vars(HookTick)
  /\ WF_vars(HookSettleEarly)

\* Both providers' adapters.  They share no state, so a behaviour runs one
\* of them while the other rests in its initial state.
CooldownNext ==
  \/ IndicesInit /\ ServiceNext
  \/ ServiceInit /\ IndicesNext

SpecCooldown == Init /\ [][CooldownNext]_vars

(***************************************************************************)
(* Properties of the poller                                                *)
(***************************************************************************)

\* C1: for every interleaving of interval ticks, the initial fetch and
\* refetch() calls of one usePollingData instance, at most one fetcher
\* invocation has started and not yet settled.
C1_AtMostOneInFlight == p_inflight <= 1

\* A second invocation was started after a first one settled, and a call
\* arrived while one was pending.
C1_Witness == p_inflight = 1 /\ p_started >= 2 /\ p_dropped >= 1

\* C2: a tick or refetch() that arrives while an invocation is pending starts
\* no invocation, and none is started later on its behalf: the number of
\* started invocations grows only in the step of a fetchData call that
\* arrives while nothing is pending, and then by one.
C2_DroppedNotQueued ==
  [][ /\ (p_calls' = p_calls + 1 /\ p_inflight > 0) => p_started' = p_started
      /\ p_started' # p_started =>
            (p_calls' = p_calls + 1 /\ p_inflight = 0 /\ p_started' = p_started + 1)
    ]_vars

\* A call was dropped while the only invocation so far was pending, and that
\* invocation has settled since.
C2_Witness == p_dropped >= 1 /\ p_started = 1 /\ p_inflight = 0 /\ p_calls >= 2

\* C11: after a fetcher invocation failed, data is what it was when the
\* invocation started, error is the failure, loading is false, and the
\* promise of the fetchData call resolved (nothing is thrown to the caller).
C11_FailureKeepsData ==
  p_last.kind = "failed" =>
    /\ p_data = p_last.dataBefore
    /\ p_error = p_last.detail
    /\ p_loading = FALSE
    /\ p_last.promise = "resolved"

\* An invocation failed after an earlier one had delivered data.
C11_Witness ==
  /\ p_last.kind = "failed"
  /\ p_last.dataBefore \in Results
  /\ p_data = p_last.dataBefore
  /\ p_error \in Failures

\* C12: after a fetcher invocation succeeded, data is its result, error is
\* null, also when the invocation before it had failed, and loading is false.
C12_SuccessReplacesData ==
  p_last.kind = "ok" =>
    /\ p_data = p_last.detail
    /\ p_error = Null
    /\ p_loading = FALSE

\* An invocation succeeded while error held an earlier failure.
C12_Witness ==
  /\ p_last.kind = "ok"
  /\ p_last.errorBefore \in Failures
  /\ p_error = Null
  /\ p_data = p_last.detail

\* C13: while the mounted poller has enabled false or intervalMs <= 0, no
\* interval is armed, so no tick can call the fetcher.
C13_NoTimerWhileDisabled ==
  (p_phase = "mounted" /\ (~p_enabled \/ p_intervalMs <= 0)) => p_timers = {}

\* An enabled poller with intervalMs <= 0 has fetched and has no interval.
C13_Witness ==
  /\ p_phase = "mounted" /\ p_enabled /\ p_intervalMs <= 0
  /\ p_started >= 1
  /\ p_timers = {}

\* C14: with immediate true, every activation of the poller (the mount, and
\* each later change of enabled from false to true) has made exactly one
\* fetchData call from the initial-fetch effect, and other re-renders none.
C14_OneImmediatePerActivation ==
  (p_phase = "mounted" /\ p_enabled /\ p_immediate) => p_actCalls = 1

\* The poller is deactivated: unmounted, or rendered with enabled false or
\* intervalMs <= 0.
Deactivated ==
  \/ p_phase = "gone"
  \/ p_phase = "mounted" /\ (~p_enabled \/ p_intervalMs <= 0)

\* C15: once the poller is deactivated, every interval that was armed has
\* been cleared and intervalId.current is null: no tick follows.
C15_TimersClearedOnDeactivation ==
  Deactivated => (p_timers = {} /\ intervalId = NoTimer)

\* The poller had an interval armed and is unmounted.
C15_Witness ==
  /\ p_phase = "gone"
  /\ p_nextTimer > 1
  /\ p_timers = {}

\* C16: after the poller is unmounted, no step writes data, error or loading.
C16_NoWritesAfterTeardown ==
  [][p_phase = "gone" => UNCHANGED <<p_data, p_error, p_loading>>]_vars

\* C30: at most one interval of the poller is armed at any time, and it is
\* the one intervalId.current names: a re-render that arms a new interval
\* has cleared the one armed before.
C30_AtMostOneTimer ==
  /\ Cardinality(p_timers) <= 1
  /\ \A t \in p_timers : t.id = intervalId

\* A re-render changed the fetcher of a poller whose interval was armed: the
\* second interval is armed, the first is gone.
C30_Witness ==
  /\ p_phase = "mounted"
  /\ p_fetcher = 1
  /\ p_nextTimer > 2
  /\ Cardinality(p_timers) = 1
  /\ \E t \in p_timers : t.id = p_nextTimer - 1 /\ t.fetcher = 1

(***************************************************************************)
(* Properties of the Alpha Vantage service                                 *)
(***************************************************************************)

\* Requests of the service that have reached the network and not settled.
HttpInFlight ==
  Cardinality({c \in 1..MaxLocked : calls[c].pc = "http"})
    + (IF b_pc = "http" THEN 1 ELSE 0)

\* C3: no two outbound requests to the provider are in flight at the same
\* time, whatever the interleaving of getQuote, getTimeSeries and
\* getBatchQuotes callers.
C3_NoOverlappingRequests == HttpInFlight <= 1

\* C4: whenever a request reaches the network, no cooldown is in force at
\* that instant (now >= nextAvailableTime).
C4_IssuedOutsideCooldown ==
  /\ \A c \in 1..MaxLocked : calls[c].pc = "http" => ~calls[c].early
  /\ b_pc = "http" => ~b_req.early

\* The Information text of an answer holds a rate-limit phrase.
HasRateLimitText(text) == \E ph \in text : ph \in RateLimitPhrases

\* C5: when a getQuote request is answered with the rate-limit text, getQuote
\* returns null and nextAvailableTime is now + RATE_LIMIT_DELAY_MS; and a call
\* made after that answer does not reach the network before
\* RATE_LIMIT_DELAY_MS has passed since the answer.
C5_RateLimitStartsCooldown ==
  /\ \A d \in delivered :
       (d.req[1] = "quote" /\ HasRateLimitText(d.text)) =>
         /\ d.result = NullResult
         /\ nextAvailableTime = av_now + RATE_LIMIT_DELAY_MS
  /\ \A c \in 1..MaxLocked : calls[c].pc = "http" => ~calls[c].low
  /\ b_pc = "http" => ~b_req.low

\* A getQuote call is suspended in throttle() while a cooldown, started by a
\* rate-limit answer, is running.
C5_Witness ==
  \E c \in 1..MaxLocked :
    /\ calls[c].pc = "throttle" /\ calls[c].op = "quote"
    /\ av_now < calls[c].floor
    /\ calls[c].floor = calls[c].wakeAt

\* C6: a caller of getQuote or getTimeSeries that arrives while a locked call
\* is in flight issues no request and is handed the result of that call;
\* when no locked call is in flight the slot is empty, and a caller arriving
\* then runs a request of its own.
C6_SingleFlight ==
  /\ \A c \in 1..MaxLocked :
       calls[c].pc # "free" =>
         IF calls[c].busy THEN calls[c].pc = "joined" /\ ~calls[c].issued
                          ELSE calls[c].pc \in {"throttle", "http"}
  /\ \A d \in delivered :
       (d.locked /\ d.busy) =>
         /\ ~d.issued
         /\ \E o \in delivered :
              /\ o.locked /\ ~o.busy /\ o.issued
              /\ <<o.op, o.sym>> = d.req
              /\ o.result = d.result
  /\ RunningLocked = {} => inflightPromise = NoCall

\* A caller that arrived while a call was in flight has been handed that
\* call's result, and the slot is empty again.
C6_Witness ==
  /\ \E d \in delivered : d.locked /\ d.busy
  /\ inflightPromise = NoCall

\* C29: every caller of getQuote or getTimeSeries is handed the result of a
\* request for the operation and symbol it asked for, also when it called
\* while another request was in flight.
C29_ResultForOwnRequest ==
  \A d \in delivered : d.req = <<d.op, d.sym>>

\* C8: within one getBatchQuotes run the requests are made one at a time in
\* the order of the input: each reaches the network after the previous one
\* settled and at least RATE_LIMIT_DELAY_MS after the previous one did.
C8_BatchSpacing ==
  (b_pc = "http" /\ b_prev.httpAt # None) =>
     /\ b_req.idx >= b_prev.idx
     /\ b_req.httpAt >= b_prev.doneAt
     /\ b_req.httpAt - b_prev.httpAt >= RATE_LIMIT_DELAY_MS

\* The answer is a failure for the operation asked: a rejected request (a
\* network error or the timeout), rate-limit text, a payload without the
\* data, or, for a series, any Information text.
FailedAnswer(d) ==
  \/ d.kind = "error"
  \/ HasRateLimitText(d.text)
  \/ d.data # "valid"
  \/ d.req[1] = "series" /\ d.text # {}

C7_FreshnessDecidedAtCall ==
  s_last.called =>
    /\ s_last.fresh => s_last.calls = 0
    /\ s_last.stale => s_last.calls = 1

\* C20: a getTimeSeries call of the hook that failed (it resolved to [])
\* leaves chartData as it was before the call settled.
C20_FailedSeriesKeepsChart ==
  s_lastSeries.kind = "failed" => chartData = s_lastSeries.before

\* C24: the timestamp of the cached quote never decreases: a quote that
\* arrives with an older timestamp than the cached one does not replace it.
C24_CacheTimestampMonotone ==
  [][stockQuotes.cached => stockQuotes'.timestamp >= stockQuotes.timestamp]_vars

\* C27: a getQuote call of the hook that resolved to null leaves no error,
\* local or global, and leaves the cached quote as it was, whether or not
\* a quote was cached.
C27_NullQuoteSetsNoError ==
  s_null.seen => (s_null.error = Null /\ s_null.kept)

(***************************************************************************)
(* Properties of the index cycles                                          *)
(***************************************************************************)
CycleFinished == x_pc = "idle" /\ x_returned # NotReturned
Succeeded == SelectSeq(INDEX_SYMBOLS, LAMBDA sym : x_outcome[sym] = "ok")
ReturnedSymbols == [k \in 1..Len(x_returned) |-> x_returned[k].symbol]

C10_NoSuccessKeepsSnapshot ==
  (CycleFinished /\ Len(Succeeded) = 0) =>
    /\ x_returned = x_before
    /\ marketIndices = x_before
    /\ x_before # <<>> => x_returned # <<>>

C10_Witness ==
  /\ CycleFinished
  /\ Len(Succeeded) = 0
  /\ x_before # <<>>
  /\ x_returned = x_before
  /\ \E sym \in IndexSymbols : x_outcome[sym] = "skipped"
  /\ \E sym \in IndexSymbols : x_outcome[sym] \in {"429", "error"}

(***************************************************************************)
(* Properties of the cooldown state of both providers                      *)
(***************************************************************************)

\* C17: nextAvailableTime changes only in a step that handles an answer
\* holding rate-limit text (not on a network error, a timeout or a payload
\* without that text), and a symbol's rateLimitedUntil entry changes only in
\* the step that handles a 429 answer for that symbol.
C17_CooldownOnlyOnRateLimitSignal ==
  [][/\ nextAvailableTime' # nextAvailableTime =>
          \E d \in delivered' : HasRateLimitText(d.text)
     /\ \A sym \in IndexSymbols :
          rateLimitedUntil'[sym] # rateLimitedUntil[sym] =>
            /\ x_pc = "await" /\ INDEX_SYMBOLS[x_i] = sym
            /\ x_outcome'[sym] = "429"]_vars

\* A request was answered with a failure that holds no rate-limit text while
\* a cooldown started by an earlier rate-limit answer was recorded, and the
\* cooldown is as that answer set it.
C17_Witness ==
  /\ \E d \in delivered :
       ~HasRateLimitText(d.text) /\ d.result \in {NullResult, EmptySeries}
  /\ rateLimitedAt # None
  /\ nextAvailableTime = rateLimitedAt + RATE_LIMIT_DELAY_MS

(***************************************************************************)
(* Properties of the portfolio cycles                                      *)
(***************************************************************************)

\* C19: a holding whose getBatchQuotes entry was null in the last cycle is
\* published with the values its last cycle with a quote published, and
\* with hasQuote true exactly when there was such a cycle.
C19_NullKeepsLastValues ==
  \A sym \in PortfolioSymbols :
    (f_pc = "idle" /\ f_quotes[sym] = None) => f_data[sym] = f_lastOk[sym]

\* C21: a holding whose entry of the last cycle is a quote with price p is
\* published with currentPrice p, totalValue p * shares, gainLoss
\* (p - avgCost) * shares, gainLossPercent gainLoss / (avgCost * shares) * 100
\* when avgCost > 0 and 0 when avgCost = 0, and hasQuote true; a holding
\* that never had a quote is published with hasQuote false.
C21_HoldingArithmetic ==
  \A sym \in PortfolioSymbols :
    LET h == f_data[sym]
        p == f_quotes[sym]
        s == effectivePortfolio[sym].shares
        c == effectivePortfolio[sym].avgCost
    IN /\ p # None =>
            /\ h.currentPrice = p
            /\ h.totalValue = p * s
            /\ h.gainLoss = (p - c) * s
            /\ c > 0 => h.gainLossPercent * (c * s) = h.gainLoss * 100
            /\ c = 0 => h.gainLossPercent = 0
            /\ h.hasQuote
       /\ ~f_lastOk[sym].hasQuote => ~h.hasQuote

\* The cycle answered IBM (100 shares at 250) with price 260 and MSFT
\* (avgCost 0) with a price as well.
C21_Witness ==
  /\ f_pc = "idle"
  /\ f_quotes["IBM"] = 260
  /\ f_data["IBM"].totalValue = 26000
  /\ f_data["IBM"].gainLoss = 1000
  /\ f_data["IBM"].gainLossPercent = 4
  /\ f_data["IBM"].hasQuote
  /\ f_quotes["MSFT"] # None

(***************************************************************************)
(* Properties of the payload mapping                                       *)
(***************************************************************************)
Descending(rows) == \A i \in 1..(Len(rows) - 1) : rows[i].date > rows[i + 1].date

\* C22: for a payload without Information message whose rows arrive in
\* reverse-chronological order, getTimeSeries returns one point per row, in
\* ascending order of date, each with the date of its row and the numbers
\* the row's texts denote.
C22_SeriesChronological ==
  (ts_pc = "done" /\ ~ts_raw.Information /\ ts_raw.key = keyMap[ts_interval]
     /\ Descending(ts_sent)) =>
    /\ Len(ts_result) = Len(ts_sent)
    /\ \A i \in 1..(Len(ts_result) - 1) : ts_result[i].date < ts_result[i + 1].date
    /\ \A i \in 1..Len(ts_sent) :
         LET row == ts_sent[i]
             pt == ts_result[Len(ts_sent) + 1 - i]
         IN /\ pt.date = row.date
            /\ pt.open = row.values.open /\ pt.high = row.values.high
            /\ pt.low = row.values.low /\ pt.close = row.values.close
            /\ pt.volume = row.values.volume

\* A payload of two rows, the later date first, was returned as two points.
C22_Witness ==
  /\ ts_pc = "done"
  /\ ~ts_raw.Information
  /\ Len(ts_sent) = 2
  /\ ts_sent[1].date > ts_sent[2].date
  /\ Len(ts_result) = 2
  /\ ts_result[1].close = 15025
  /\ ts_raw.entries[2].point.close = <<"1", "5", "0", ".", "2", "5">>

\* C23: a quote payload whose price text does not parse to a number makes
\* getQuote return null, and fetchPortfolio sees no quote.
C23_NaNPriceIsInvalid ==
  (q_pc = "done" /\ parseFloat(q_raw.price) = NaN) =>
    (q_result = NullQuote /\ ~q_hasQuote)

(***************************************************************************)
(* Properties of the enabled option of useMarketIndices                    *)
(***************************************************************************)

\* C25: a hook that was never rendered with enabled = true has made no
\* request; no request belongs to an invocation that a mount, a tick or a
\* refetch started in a render with enabled = false; and in a render with
\* enabled = false the hook reports the stored indices, loading = false
\* and error = null.
C25_DisabledIssuesNoRequest ==
  /\ ~m_everEnabled => m_requests = 0
  /\ m_lastReq.issued => (m_lastReq.enabled /\ m_lastReq.closure)
  /\ (m_phase = "mounted" /\ ~m_enabled) =>
       HookReport = [data |-> m_atom, loading |-> FALSE, error |-> Null]
  /\ (m_phase = "mounted" /\ ~m_enabled) => m_timer = NoInterval

\* A hook mounted with enabled = false whose first invocation has settled
\* and whose refetch was called, with no request made.
C25_Witness ==
  /\ m_phase = "mounted"
  /\ ~m_everEnabled
  /\ m_hasFetchedOnce
  /\ m_inv = NoInvocation
  /\ m_idle > 0
  /\ m_requests = 0
  /\ HookReport.data = "empty"

\* C26: every request of a poll invocation settles, so an invocation that
\* is in flight eventually completes and the poller's in-flight flag is
\* cleared.
C26_InvocationCompletes == m_isFetching ~> ~m_isFetching

(***************************************************************************)
(* Properties of one getBatchQuotes run                                    *)
(***************************************************************************)
BatchResultsInOrder ==
  /\ Len(b_results) <= Len(b_syms)
  /\ \A k \in 1..Len(b_results) :
       /\ b_results[k][1] = b_syms[k]
       /\ b_results[k][2] \in {NullResult, <<"quote", b_syms[k]>>}
  /\ b_pc = "done" => Len(b_results) = Len(b_syms)

\* A step of the run that waits no longer for a retry, or records a result.
BatchStepBounded ==
  /\ (b_pc = "retrywait" /\ b_pc' # "retrywait") =>
       /\ av_now >= b_prev.doneAt + RATE_LIMIT_DELAY_MS
       /\ b_retries' = b_retries - 1
  /\ Len(b_results') = Len(b_results) + 1 =>
       LET entry == b_results'[Len(b_results')]
       IN /\ entry[2] = NullResult => b_retries = 0
          /\ entry[2] # NullResult =>
               \E d \in delivered' : d.data = "valid" /\ d.result = entry[2]

\* C28: a getBatchQuotes run ends; a symbol has at most Retries retries
\* left and never fewer than none; a retry starts no sooner than
\* RATE_LIMIT_DELAY_MS after the null answer before it; the results hold one
\* entry per symbol in the order of the input, a quote of that symbol or
\* null; null is recorded only when no retry is left, and the symbols after
\* it are still fetched.
C28_BatchTerminates ==
  /\ [](b_retries \in 0..Retries /\ BatchResultsInOrder)
  /\ [][BatchStepBounded]_vars
  /\ (b_pc # "idle") ~> (b_pc = "done")

\* The run for A and B ended: A was given up after its retries, B has its
\* quote.
C28_Witness ==
  /\ b_pc = "done"
  /\ b_results = << <<"A", NullResult>>, <<"B", <<"quote", "B">>>> >>
  /\ av_now >= StartTime + Retries * RATE_LIMIT_DELAY_MS

====
